---------------------------- MODULE Spec2Model ----------------------------
(***************************************************************************)
(* A model of the VPN subscription bot: the JSON record stores and their   *)
(* asyncio locks (json_utils.py), the promo code ledger (promocode.py),    *)
(* the request ledger (request.py) and the subscription engine and         *)
(* workflow controller (vpn_service.py).                                   *)
(*                                                                         *)
(* Every coroutine is cut at its suspension points (the awaits on a store  *)
(* lock, on the executor that reads or writes the file, on the panel API   *)
(* and on the Telegram transport); the code between two awaits is one      *)
(* atomic step, as on an asyncio event loop.                               *)
(***************************************************************************)
EXTENDS Integers, Sequences, FiniteSets, TLC

(***************************************************************************)
(* Arithmetic on naturals wider than the checker's integers.               *)
(* A millisecond timestamp needs 41 bits and the mantissa of a Python      *)
(* float 53, so the float computations of _add_days_to_timestamp are done  *)
(* on numerals: sequences of digits in base 2^10, least significant first, *)
(* with no leading zero digit (the numeral of 0 is << >>).                 *)
(***************************************************************************)

DigitBits == 10
Base == 2 ^ DigitBits

RECURSIVE NumOf(_)
NumOf(n) == IF n = 0 THEN << >> ELSE <<n % Base>> \o NumOf(n \div Base)

RECURSIVE BTrim(_)
BTrim(a) ==
    IF a = << >> THEN << >>
    ELSE IF a[Len(a)] = 0 THEN BTrim(SubSeq(a, 1, Len(a) - 1)) ELSE a

\* a * c + carry, for a multiplier c < 2^20
RECURSIVE BMulAdd(_, _, _)
BMulAdd(a, c, carry) ==
    IF a = << >> THEN NumOf(carry)
    ELSE LET v == a[1] * c + carry
         IN  <<v % Base>> \o BMulAdd(Tail(a), c, v \div Base)

BMulSmall(a, c) == BTrim(BMulAdd(a, c, 0))

RECURSIVE BAddC(_, _, _)
BAddC(a, b, carry) ==
    IF a = << >> /\ b = << >> THEN NumOf(carry)
    ELSE LET x == IF a = << >> THEN 0 ELSE a[1]
             y == IF b = << >> THEN 0 ELSE b[1]
             v == x + y + carry
         IN  <<v % Base>> \o BAddC(IF a = << >> THEN a ELSE Tail(a),
                                   IF b = << >> THEN b ELSE Tail(b), v \div Base)

BAdd(a, b) == BTrim(BAddC(a, b, 0))

\* quotient and remainder of a by a divisor c < 2^20: long division from the
\* top digit; the result is [q, r]
RECURSIVE BDivStep(_, _, _, _, _)
BDivStep(a, c, i, q, r) ==
    IF i = 0 THEN [q |-> BTrim(q), r |-> r]
    ELSE LET v == Base * r + a[i]
         IN  BDivStep(a, c, i - 1, <<v \div c>> \o q, v % c)

BDivMod(a, c) == BDivStep(a, c, Len(a), << >>, 0)

\* the number of bits of a digit
DigitLen(d) == CHOOSE n \in 0..DigitBits : d < 2 ^ n /\ (n = 0 \/ d >= 2 ^ (n - 1))

\* the number of bits of a
BLen(a) == IF a = << >> THEN 0 ELSE DigitBits * (Len(a) - 1) + DigitLen(a[Len(a)])

\* a * 2^k
BShl(a, k) ==
    IF a = << >> THEN a
    ELSE [i \in 1..(k \div DigitBits) |-> 0] \o BMulSmall(a, 2 ^ (k % DigitBits))

\* a / 2^k, rounded down
BShr(a, k) ==
    LET w == k \div DigitBits
    IN  IF w >= Len(a) THEN << >>
        ELSE BDivMod(SubSeq(a, w + 1, Len(a)), 2 ^ (k % DigitBits)).q

\* a modulo 2^k
BLow(a, k) ==
    LET w == k \div DigitBits
    IN  IF w >= Len(a) THEN a
        ELSE BTrim(SubSeq(a, 1, w) \o <<a[w + 1] % (2 ^ (k % DigitBits))>>)

\* bit i of a (bit 0 is the lowest)
BBit(a, i) ==
    LET w == i \div DigitBits
    IN  IF w >= Len(a) THEN 0 ELSE (a[w + 1] \div (2 ^ (i % DigitBits))) % 2

BIsOdd(a) == BBit(a, 0) = 1

\* a / 2^k rounded to the nearest integer, a tie to the even one
BRoundShr(a, k) ==
    IF k = 0 THEN a
    ELSE LET q    == BShr(a, k)
             half == BBit(a, k - 1) = 1
             more == BLow(a, k - 1) # << >>
             up   == half /\ (more \/ BIsOdd(q))
         IN  IF up THEN BAdd(q, <<1>>) ELSE q

\* a / c rounded to the nearest integer, a tie to the even one (c < 2^20)
BRoundDiv(a, c) ==
    LET d  == BDivMod(a, c)
        up == 2 * d.r > c \/ (2 * d.r = c /\ BIsOdd(d.q))
    IN  IF up THEN BAdd(d.q, <<1>>) ELSE d.q

RECURSIVE BLess(_, _)
BLess(a, b) ==
    IF Len(a) # Len(b) THEN Len(a) < Len(b)
    ELSE IF a = << >> THEN FALSE
    ELSE IF a[Len(a)] # b[Len(b)] THEN a[Len(a)] < b[Len(b)]
    ELSE BLess(BTrim(SubSeq(a, 1, Len(a) - 1)), BTrim(SubSeq(b, 1, Len(b) - 1)))

BLeq(a, b) == a = b \/ BLess(a, b)

BMax(a, b) == IF BLess(a, b) THEN b ELSE a

(***************************************************************************)
(* Python floats (IEEE 754 binary64) of positive value: [m, e] stands for  *)
(* m * 2^e with 2^52 <= m < 2^53.                                          *)
(***************************************************************************)

MantissaBits == 53

\* a mantissa that rounding carried to 2^53 is renormalised
FNorm(m, e) ==
    IF BLen(m) > MantissaBits THEN [m |-> BShr(m, 1), e |-> e + 1]
    ELSE [m |-> m, e |-> e]

\* int / int true division: the float nearest to a / c  (1 <= a / c < 2^53)
FDiv(a, c) ==
    LET k == MantissaBits - BLen(BDivMod(a, c).q)
    IN  FNorm(BRoundDiv(BShl(a, k), c), 0 - k)

\* float * int: the float nearest to the exact product
FMul(x, c) ==
    LET p == BMulSmall(x.m, c)
        s == BLen(p) - MantissaBits
    IN  FNorm(BRoundShr(p, s), x.e + s)

\* int(float): truncation toward zero
FTrunc(x) == IF x.e >= 0 THEN BShl(x.m, x.e) ELSE BShr(x.m, 0 - x.e)

\* the fractional part of x as a numerator over 2^(-x.e)
FFrac(x) == IF x.e >= 0 THEN << >> ELSE BLow(x.m, 0 - x.e)

MicrosPerSecond == 1000000
MillisPerSecond == 1000
SecondsPerDay == 86400

\* datetime.fromtimestamp(x, tz=utc): the datetime as microseconds since the
\* epoch; the fraction of x is scaled by 1e6 and rounded half to even
FromTimestamp(x) ==
    LET whole == FTrunc(x)
        us    == BRoundShr(BMulSmall(FFrac(x), MicrosPerSecond),
                           IF x.e >= 0 THEN 0 ELSE 0 - x.e)
    IN  BAdd(BMulSmall(whole, MicrosPerSecond), us)

\* datetime + timedelta(days=days): exact, in microseconds
PlusDays(us, days) ==
    BAdd(us, BMulSmall(NumOf(days * SecondsPerDay), MicrosPerSecond))

\* datetime.timestamp(): total microseconds / 10**6 as a float
ToTimestamp(us) == FDiv(us, MicrosPerSecond)

\* VPNService._add_days_to_timestamp(timestamp, days), timestamp > 0
AddDaysToTimestamp(timestamp, days) ==
    LET current_datetime == FromTimestamp(FDiv(timestamp, MillisPerSecond))
        new_datetime     == PlusDays(current_datetime, days)
    IN  FTrunc(FMul(ToTimestamp(new_datetime), MillisPerSecond))

\* the timestamp hi * 10^6 + lo milliseconds
Ms(hi, lo) == BAdd(BMulSmall(NumOf(hi), 1000000), NumOf(lo))

\* exact arithmetic on timestamps, to state what a result should be
TsPlusDays(t, days) ==
    BAdd(t, BMulSmall(BMulSmall(NumOf(days), SecondsPerDay), MillisPerSecond))


(***************************************************************************)
(* The state.                                                              *)
(***************************************************************************)

VARIABLES
    stores,   \* the three JSONDataStore objects: of each, the file and the lock
              \* (whether it is locked, and the tasks waiting for it in order)
    panel,    \* the 3x-ui panel: the client of each email, or None
    now,      \* the value _current_timestamp() returns
    pc,       \* the await each task is suspended at ("idle", "done": at none)
    loc,      \* each task's arguments, local variables and result
    hist,     \* what has happened so far: counters the properties read
    calls     \* how many top-level calls have been started

vars == <<stores, panel, now, pc, loc, hist, calls>>

\* bounds of the model
NumUsers == 2
NumCodes == 2
MaxCalls == 3

Tasks   == {"t1", "t2"}
UserIds == 1..NumUsers
Codes   == 1..NumCodes

\* an Optional value: Python's None, or a value x
None == << >>
Some(x) == <<x>>

\* the files the stores are constructed on (config.py)
USERS_FILE      == "data/users.json"
PROMOCODES_FILE == "data/promocodes.json"
REQUESTS_FILE   == "data/requests.json"
StoreNames == {USERS_FILE, PROMOCODES_FILE, REQUESTS_FILE}

users      == stores[USERS_FILE].file
promocodes == stores[PROMOCODES_FILE].file
requests   == stores[REQUESTS_FILE].file

\* Promocode(code, duration_days, active).to_dict()
Promocode(code, duration_days, active) ==
    [code |-> code, duration_days |-> duration_days, active |-> active]

\* User(user_id, vpn_id=f"vpn_{user_id}").to_dict()
User(user_id) == [user_id |-> user_id, vpn_id |-> <<"vpn_", user_id>>]

\* Request(request_id, user_id, details, status, timestamp).to_dict(); the
\* details are free text that no operation reads
Request(request_id, user_id, status, timestamp) ==
    [request_id |-> request_id, user_id |-> user_id, status |-> status,
     timestamp |-> timestamp]

\* the panel's Client, as far as the service reads and writes it
Client(limit_ip, expiry_time) == [limit_ip |-> limit_ip, expiry_time |-> expiry_time]

\* the locals of a task that runs nothing
NoLocals ==
    [op |-> "", user_id |-> 0, code |-> 0, request_id |-> 0, devices |-> 0,
     duration |-> 0, replace_devices |-> FALSE, replace_duration |-> FALSE,
     status_filter |-> None, data |-> << >>, promocode |-> None, user |-> None, request |-> None,
     client |-> None, success |-> None, sent |-> None, ret |-> None]

\* the indices of a sequence whose record satisfies a test, and the first of them
Matching(seq, Test(_)) == {i \in 1..Len(seq) : Test(seq[i])}
First(S) == CHOOSE i \in S : \A j \in S : i <= j

\* where a coroutine goes on: suspended at the await named label, or returned
Cont(label, l) == [pc |-> label, loc |-> l]
Ret(l, value) == [pc |-> "done", loc |-> [l EXCEPT !.ret = Some(value)]]

\* VPNService._current_timestamp
CurrentTimestamp == now

\* VPNService._days_to_timestamp
DaysToTimestamp(days) == AddDaysToTimestamp(CurrentTimestamp, days)

(***************************************************************************)
(* VPNService (vpn_service.py).  Each operator is the code a coroutine     *)
(* runs between two awaits: from the value the finished await delivered    *)
(* to the next await or to the return.                                     *)
(***************************************************************************)

\* apply_promocode as it must not be: a code that get_promocode did not give
\* counts as a code of 30 days
ApplyAfterGetPromocodeAnyway(l, promocode) ==
    Cont("get_user:read",
         [l EXCEPT !.promocode = IF promocode = None
                                 THEN Some(Promocode(l.code, 30, FALSE))
                                 ELSE promocode])

\* apply_promocode, after get_promocode: an absent or inactive code ends the call
ApplyAfterGetPromocode(l, promocode) ==
    IF promocode = None THEN Ret(l, FALSE)
    ELSE Cont("get_user:read", [l EXCEPT !.promocode = promocode])

\* apply_promocode, after get_user: a missing user is created and saved
ApplyAfterGetUser(l, user) ==
    IF user = None
    THEN Cont("save_user:read", [l EXCEPT !.user = Some(User(l.user_id))])
    ELSE Cont("is_client_exists:get_by_email", [l EXCEPT !.user = user])

\* create_client up to its await: the new Client is built, then api.client.add
CreateClient(l, devices, duration) ==
    Cont("create_client:add",
         [l EXCEPT !.devices = devices, !.duration = duration,
                   !.client = Some(Client(devices, DaysToTimestamp(duration)))])

\* update_client up to its first await: api.client.get_by_email
UpdateClient(l, devices, duration, replace_devices, replace_duration) ==
    Cont("update_client:get_by_email",
         [l EXCEPT !.devices = devices, !.duration = duration,
                   !.replace_devices = replace_devices,
                   !.replace_duration = replace_duration])

\* apply_promocode, after is_client_exists: extend the client, or create it
ApplyAfterIsClientExists(l, client) ==
    IF client # None
    THEN UpdateClient(l, 0, l.promocode[1].duration_days, FALSE, FALSE)
    ELSE CreateClient(l, 1, l.promocode[1].duration_days)

\* apply_promocode as it must not be: the code is consumed whatever the grant gave
ApplyAfterGrantAlways(l, success) ==
    Cont("use_promocode:read", [l EXCEPT !.success = Some(success)])

\* apply_promocode, after update_client or create_client: the code is consumed
\* on success only
ApplyAfterGrant(l, success) ==
    IF success THEN Cont("use_promocode:read", [l EXCEPT !.success = Some(TRUE)])
    ELSE Ret([l EXCEPT !.success = Some(FALSE)], FALSE)

\* apply_promocode, after use_promocode: its result is not looked at
ApplyAfterUsePromocode(l, used) == Ret(l, TRUE)

\* extend_subscription as it must not be: a user without a record is extended
\* all the same
ExtendAfterGetUserAnyway(l, user) ==
    UpdateClient([l EXCEPT !.user = Some(User(l.user_id))], l.devices, l.duration,
                 TRUE, FALSE)

\* extend_subscription, after get_user
ExtendAfterGetUser(l, user) ==
    IF user = None THEN Ret(l, FALSE)
    ELSE UpdateClient([l EXCEPT !.user = user], l.devices, l.duration, TRUE, FALSE)

\* create_subscription, after get_user: a missing user is created and saved
CreateSubscriptionAfterGetUser(l, user) ==
    IF user = None
    THEN Cont("save_user:read", [l EXCEPT !.user = Some(User(l.user_id))])
    ELSE Cont("is_client_exists:get_by_email", [l EXCEPT !.user = user])

\* create_subscription, after is_client_exists: a new client is created, an
\* existing one has its device limit and its expiry replaced
CreateSubscriptionAfterIsClientExists(l, client) ==
    IF client = None THEN CreateClient(l, l.devices, l.duration)
    ELSE UpdateClient(l, l.devices, l.duration, TRUE, TRUE)

\* get_user, after read_data: the first record of the user id, or None
GetUserAfterRead(l, data) ==
    LET found == Matching(data, LAMBDA u : u.user_id = l.user_id)
        user  == IF found = {} THEN None ELSE Some(data[First(found)])
    IN  CASE l.op = "extend_subscription" -> ExtendAfterGetUser(l, user)
          [] l.op = "create_subscription" -> CreateSubscriptionAfterGetUser(l, user)
          [] OTHER -> ApplyAfterGetUser(l, user)

\* save_user as it must not be: the user's record is appended in any case
SaveUserAfterReadAppend(l, data) ==
    Cont("save_user:write", [l EXCEPT !.data = Append(data, l.user[1])])

\* save_user, after read_data: the user's record is replaced, or appended
SaveUserAfterRead(l, data) ==
    LET user  == l.user[1]
        found == Matching(data, LAMBDA u : u.user_id = user.user_id)
    IN  Cont("save_user:write",
             [l EXCEPT !.data = IF found = {} THEN Append(data, user)
                                 ELSE [data EXCEPT ![First(found)] = user]])

\* save_user, after write_data: back in apply_promocode or
\* create_subscription, at is_client_exists
SaveUserAfterWrite(l) == Cont("is_client_exists:get_by_email", l)

\* is_client_exists, after get_by_email; an exception is logged and gives None
IsClientExistsAfterGet(l, client, raised) ==
    LET found == IF raised THEN None ELSE client
    IN  IF l.op = "create_subscription"
        THEN CreateSubscriptionAfterIsClientExists(l, found)
        ELSE ApplyAfterIsClientExists(l, found)

\* update_client's and create_client's return to their caller
GrantReturn(l, success) ==
    IF l.op = "apply_promocode" THEN ApplyAfterGrant(l, success)
    ELSE Ret([l EXCEPT !.success = Some(success)], success)

\* the device limit update_client writes
NewDeviceLimit(current_device_limit, devices, replace_devices) ==
    IF replace_devices THEN devices ELSE current_device_limit + devices

\* the expiry update_client writes
NewExpiry(expiry_time, current_time, duration, replace_duration) ==
    LET expiry_time_to_use ==
            IF replace_duration THEN current_time
            ELSE BMax(expiry_time, current_time)
    IN  AddDaysToTimestamp(expiry_time_to_use, duration)

\* update_client as it must not be: a client that is not there is sent to the
\* panel as a new one
UpdateClientAfterGetAbsentToo(l, client, raised) ==
    IF raised THEN GrantReturn(l, FALSE)
    ELSE Cont("update_client:update",
              [l EXCEPT !.client =
                  Some(Client(l.devices,
                              AddDaysToTimestamp(CurrentTimestamp, l.duration)))])

\* update_client, after get_by_email: an exception or no client gives False,
\* else the fetched client is changed and sent with api.client.update
UpdateClientAfterGet(l, client, raised) ==
    IF raised \/ client = None THEN GrantReturn(l, FALSE)
    ELSE Cont("update_client:update",
              [l EXCEPT !.client =
                  Some(Client(NewDeviceLimit(client[1].limit_ip, l.devices,
                                             l.replace_devices),
                              NewExpiry(client[1].expiry_time, CurrentTimestamp,
                                        l.duration, l.replace_duration)))])

\* update_client, after api.client.update
UpdateClientAfterUpdate(l, raised) == GrantReturn(l, ~raised)

\* create_client, after api.client.add
CreateClientAfterAdd(l, raised) == GrantReturn(l, ~raised)

\* the fields of the panel's client that get_client_data reads
PanelClient(limit_ip, total, up, down, expiry_time) ==
    [limit_ip |-> limit_ip, total |-> total, up |-> up, down |-> down,
     expiry_time |-> expiry_time]

\* ClientData (client.py)
ClientData(max_devices, traffic_total, traffic_remaining, traffic_used, traffic_up, traffic_down, expiry_time) ==
    [max_devices |-> max_devices, traffic_total |-> traffic_total,
     traffic_remaining |-> traffic_remaining, traffic_used |-> traffic_used,
     traffic_up |-> traffic_up, traffic_down |-> traffic_down,
     expiry_time |-> expiry_time]

\* get_client_data as it must not be: the panel's numbers as they are
GetClientDataAfterGetRaw(l, fetched, raised) ==
    IF raised \/ fetched = None THEN Ret(l, None)
    ELSE LET client == fetched[1]
         IN  Ret(l, Some(ClientData(client.limit_ip, client.total,
                                    client.total - (client.up + client.down),
                                    client.up + client.down, client.up,
                                    client.down, client.expiry_time)))

\* get_client_data, after get_by_email: None for an exception and for no
\* client, else the ClientData of the client
GetClientDataAfterGet(l, fetched, raised) ==
    IF raised \/ fetched = None THEN Ret(l, None)
    ELSE LET client        == fetched[1]
             limit_ip      == client.limit_ip
             max_devices   == IF limit_ip = 0 THEN -1 ELSE limit_ip
             expiry_time   == IF client.expiry_time = 0 THEN -1 ELSE client.expiry_time
             unlimited     == client.total <= 0
             traffic_total == IF unlimited THEN -1 ELSE client.total
             traffic_remaining ==
                 IF unlimited THEN -1 ELSE client.total - (client.up + client.down)
             traffic_used  == client.up + client.down
         IN  Ret(l, Some(ClientData(max_devices, traffic_total, traffic_remaining,
                                    traffic_used, client.up, client.down,
                                    expiry_time)))

\* respond_to_request as it must not be: an unknown id is answered all the same
RespondAfterGetRequestAnyway(l, request) ==
    Cont("send_message_to_user:send_message", [l EXCEPT !.request = request])

\* respond_to_request, after get_request: an unknown id ends the call
RespondAfterGetRequest(l, request) ==
    IF request = None THEN Ret(l, FALSE)
    ELSE Cont("send_message_to_user:send_message", [l EXCEPT !.request = request])

\* respond_to_request, after send_message_to_user, whose result (False when
\* bot.send_message raised) is not looked at: the status is updated next
RespondAfterSend(l, sent) ==
    Cont("update_request_status:read", [l EXCEPT !.sent = Some(sent)])

\* respond_to_request, after update_request_status: its result is not looked at
RespondAfterUpdateStatus(l, updated) == Ret(l, TRUE)

(***************************************************************************)
(* PromocodeService (promocode.py).                                        *)
(***************************************************************************)

\* promo_data["code"] == code and promo_data.get("active", True)
ActiveMatches(data, code) ==
    Matching(data, LAMBDA promo_data : promo_data.code = code /\ promo_data.active)

\* get_promocode as it must not be: the first record of the code, active or not
GetPromocodeAfterReadAnyState(l, data) ==
    LET found     == Matching(data, LAMBDA promo_data : promo_data.code = l.code)
        promocode == IF found = {} THEN None ELSE Some(data[First(found)])
    IN  IF l.op = "apply_promocode" THEN ApplyAfterGetPromocode(l, promocode)
        ELSE Ret(l, promocode)

\* get_promocode, after read_data: the first active record of the code, or None
GetPromocodeAfterRead(l, data) ==
    LET found     == ActiveMatches(data, l.code)
        promocode == IF found = {} THEN None ELSE Some(data[First(found)])
    IN  IF l.op = "apply_promocode" THEN ApplyAfterGetPromocode(l, promocode)
        ELSE Ret(l, promocode)

\* use_promocode's return to its caller
UsePromocodeReturn(l, used) ==
    IF l.op = "apply_promocode" THEN ApplyAfterUsePromocode(l, used)
    ELSE Ret(l, used)

\* use_promocode, after read_data: the first active record of the code is made
\* inactive in the list that was read, and the list is written back
UsePromocodeAfterRead(l, data) ==
    LET found == ActiveMatches(data, l.code)
    IN  IF found = {} THEN UsePromocodeReturn(l, FALSE)
        ELSE Cont("use_promocode:write",
                  [l EXCEPT !.data = [data EXCEPT ![First(found)].active = FALSE]])

\* use_promocode, after write_data
UsePromocodeAfterWrite(l) == UsePromocodeReturn(l, TRUE)

\* add_promocode as it must not be: only a code that is active is refused
AddPromocodeAfterReadActiveOnly(l, data) ==
    IF ActiveMatches(data, l.code) # {} THEN Ret(l, FALSE)
    ELSE Cont("add_promocode:write",
              [l EXCEPT !.data = Append(data, Promocode(l.code, l.duration, TRUE))])

\* add_promocode as it must not be: the code is appended without a look at
\* the list
AddPromocodeAfterReadUnchecked(l, data) ==
    Cont("add_promocode:write",
         [l EXCEPT !.data = Append(data, Promocode(l.code, l.duration, TRUE))])

\* add_promocode, after read_data: a code the list holds already is refused
AddPromocodeAfterRead(l, data) ==
    IF \E i \in 1..Len(data) : data[i].code = l.code THEN Ret(l, FALSE)
    ELSE Cont("add_promocode:write",
              [l EXCEPT !.data = Append(data, Promocode(l.code, l.duration, TRUE))])

\* add_promocode, after write_data
AddPromocodeAfterWrite(l) == Ret(l, TRUE)

\* deactivate_promocode, after read_data
DeactivatePromocodeAfterRead(l, data) ==
    LET found == ActiveMatches(data, l.code)
    IN  IF found = {} THEN Ret(l, FALSE)
        ELSE Cont("deactivate_promocode:write",
                  [l EXCEPT !.data = [data EXCEPT ![First(found)].active = FALSE]])

\* deactivate_promocode, after write_data
DeactivatePromocodeAfterWrite(l) == Ret(l, TRUE)

\* remove_promocode, after read_data: the records of other codes are kept;
\* when that is every record, nothing is written
RemovePromocodeAfterRead(l, data) ==
    LET updated_promocodes == SelectSeq(data, LAMBDA promo : promo.code # l.code)
    IN  IF Len(updated_promocodes) = Len(data) THEN Ret(l, FALSE)
        ELSE Cont("remove_promocode:write", [l EXCEPT !.data = updated_promocodes])

\* remove_promocode, after write_data
RemovePromocodeAfterWrite(l) == Ret(l, TRUE)

\* list_promocodes, after read_data
ListPromocodesAfterRead(l, data) == Ret(l, data)

(***************************************************************************)
(* RequestService (request.py).                                            *)
(***************************************************************************)

\* create_request, after read_data: the request is appended to the list read
CreateRequestAfterRead(l, data) ==
    Cont("create_request:write", [l EXCEPT !.data = Append(data, l.request[1])])

\* create_request's return to its caller: handle_user_request does not look
\* at the result and returns True
CreateRequestReturn(l, created) ==
    IF l.op = "handle_user_request" THEN Ret(l, TRUE) ELSE Ret(l, created)

\* create_request, after write_data
CreateRequestAfterWrite(l) == CreateRequestReturn(l, TRUE)

\* the fields of the dataclass Request, none of which has a default
RequestFields == {"request_id", "user_id", "details", "status", "timestamp"}

\* Request.__init__ as the dataclass generates it: TypeError when a field
\* is not given
NewRequest(given) ==
    IF RequestFields \subseteq DOMAIN given
    THEN [raised |-> FALSE,
          request |-> Some(Request(given.request_id, given.user_id, given.status,
                                   given.timestamp))]
    ELSE [raised |-> TRUE, request |-> None]

\* handle_user_request up to its first await: the Request is built from the
\* user, the details, the status pending and the current time; an exception
\* is logged and the call returns False
HandleUserRequest(l) ==
    LET new == NewRequest([user_id |-> l.user_id, details |-> "message",
                           status |-> "pending", timestamp |-> CurrentTimestamp])
    IN  IF new.raised THEN Ret(l, FALSE)
        ELSE Cont("create_request:read", [l EXCEPT !.request = new.request])

\* process_request_id (bot_vpn_manager.py), after get_request: an unknown
\* request and one that is not pending end the handler; otherwise the id is
\* kept in the conversation's data and the conversation waits for the
\* administrator's message
ProcessRequestIdAfterGetRequest(l, current_request) ==
    IF current_request = None \/ current_request[1].status # "pending"
    THEN Ret(l, FALSE)
    ELSE Cont("waiting_for_response_message", [l EXCEPT !.request = current_request])

\* get_request's return to its caller
GetRequestReturn(l, request) ==
    IF l.op = "process_request_id" THEN ProcessRequestIdAfterGetRequest(l, request)
    ELSE RespondAfterGetRequest(l, request)

\* get_request, after read_data: the first record of the id, or None
GetRequestAfterRead(l, data) ==
    LET found == Matching(data, LAMBDA req_data : req_data.request_id = l.request_id)
    IN  GetRequestReturn(l, IF found = {} THEN None ELSE Some(data[First(found)]))

\* update_request_status(request_id, "completed"), after read_data
UpdateRequestStatusAfterRead(l, data, new_status) ==
    LET found == Matching(data, LAMBDA req_data : req_data.request_id = l.request_id)
    IN  IF found = {} THEN RespondAfterUpdateStatus(l, FALSE)
        ELSE Cont("update_request_status:write",
                  [l EXCEPT !.data = [data EXCEPT ![First(found)].status = new_status]])

\* update_request_status, after write_data
UpdateRequestStatusAfterWrite(l) == RespondAfterUpdateStatus(l, TRUE)

\* Request.from_dict(data): the Request object of a stored record
RequestFromDict(data) ==
    Request(data.request_id, data.user_id, data.status, data.timestamp)

\* list_requests as it must not be: the filter is not applied
ListRequestsAfterReadUnfiltered(l, data) ==
    Ret(l, [i \in 1..Len(data) |-> RequestFromDict(data[i])])

\* list_requests, after read_data: the records whose status is the filter, or
\* all of them without a filter, each as a Request, in the order of the file
ListRequestsAfterRead(l, data) ==
    LET kept == IF l.status_filter # None
                THEN SelectSeq(data, LAMBDA req : req.status = l.status_filter[1])
                ELSE data
    IN  Ret(l, [i \in 1..Len(kept) |-> RequestFromDict(kept[i])])

(***************************************************************************)
(* The awaits.  read_data and write_data run under the store's             *)
(* asyncio.Lock: a task that reaches one takes the lock at once when it is *)
(* unlocked and nobody waits for it, and queues up behind the waiters      *)
(* otherwise; the release hands the lock to the first waiter.  The file    *)
(* access of the task that holds the lock, in the executor, is one step;   *)
(* so is the outcome of a panel or Telegram call.  After either, the       *)
(* coroutine runs to its next await.                                       *)
(***************************************************************************)

ReadAwaits ==
    {"get_promocode:read", "use_promocode:read", "add_promocode:read",
     "remove_promocode:read",
     "deactivate_promocode:read", "list_promocodes:read", "get_user:read",
     "save_user:read", "create_request:read", "get_request:read",
     "update_request_status:read", "list_requests:read"}

WriteAwaits ==
    {"use_promocode:write", "add_promocode:write", "remove_promocode:write",
     "deactivate_promocode:write",
     "save_user:write", "create_request:write", "update_request_status:write"}

\* the store each service reads and writes
StoreOf(label) ==
    IF label \in {"get_user:read", "save_user:read", "save_user:write"}
    THEN USERS_FILE
    ELSE IF label \in {"create_request:read", "create_request:write",
                       "get_request:read", "update_request_status:read",
                       "update_request_status:write", "list_requests:read"}
    THEN REQUESTS_FILE
    ELSE PROMOCODES_FILE

\* the code that follows a finished read_data
AfterRead(label, l, data) ==
    CASE label = "get_promocode:read"         -> GetPromocodeAfterRead(l, data)
      [] label = "use_promocode:read"         -> UsePromocodeAfterRead(l, data)
      [] label = "add_promocode:read"         -> AddPromocodeAfterRead(l, data)
      [] label = "remove_promocode:read"      -> RemovePromocodeAfterRead(l, data)
      [] label = "deactivate_promocode:read"  -> DeactivatePromocodeAfterRead(l, data)
      [] label = "list_promocodes:read"       -> ListPromocodesAfterRead(l, data)
      [] label = "get_user:read"              -> GetUserAfterRead(l, data)
      [] label = "save_user:read"             -> SaveUserAfterRead(l, data)
      [] label = "create_request:read"        -> CreateRequestAfterRead(l, data)
      [] label = "get_request:read"           -> GetRequestAfterRead(l, data)
      [] label = "list_requests:read"         -> ListRequestsAfterRead(l, data)
      [] label = "update_request_status:read" ->
             UpdateRequestStatusAfterRead(l, data, "completed")

\* the code that follows a finished write_data
AfterWrite(label, l) ==
    CASE label = "use_promocode:write"         -> UsePromocodeAfterWrite(l)
      [] label = "add_promocode:write"         -> AddPromocodeAfterWrite(l)
      [] label = "remove_promocode:write"      -> RemovePromocodeAfterWrite(l)
      [] label = "deactivate_promocode:write"  -> DeactivatePromocodeAfterWrite(l)
      [] label = "save_user:write"             -> SaveUserAfterWrite(l)
      [] label = "create_request:write"        -> CreateRequestAfterWrite(l)
      [] label = "update_request_status:write" -> UpdateRequestStatusAfterWrite(l)

\* a coroutine that an exception leaves: the exception is the caller's
Raise(l) == [pc |-> "raised", loc |-> l]

\* the code that follows a read_data or write_data that raised: the except
\* clause of the RequestService method around it, which returns False, None
\* or [] to its caller; PromocodeService and the users store code of
\* VPNService have no try statement around the await
AfterRaise(label, l) ==
    CASE label \in {"create_request:read", "create_request:write"} ->
             CreateRequestReturn(l, FALSE)
      [] label = "get_request:read" -> GetRequestReturn(l, None)
      [] label \in {"update_request_status:read", "update_request_status:write"} ->
             RespondAfterUpdateStatus(l, FALSE)
      [] label = "list_requests:read" -> Ret(l, << >>)
      [] OTHER -> Raise(l)

StoreAwaits == ReadAwaits \cup WriteAwaits

\* a lock as it must not be: whoever asks has it at once
LockAcquireAtOnce(store, t) == [store EXCEPT !.locked = TRUE]

\* asyncio.Lock.acquire by a task that reaches read_data or write_data
LockAcquire(store, t) ==
    IF ~store.locked /\ store.waiters = << >>
    THEN [store EXCEPT !.locked = TRUE]
    ELSE [store EXCEPT !.waiters = Append(@, t)]

\* a lock as it must not be: the release leaves it as it is
LockReleaseForgotten(store) == store

\* asyncio.Lock.release: the first waiter, if any, is woken and has the lock
LockRelease(store) ==
    IF store.waiters = << >> THEN [store EXCEPT !.locked = FALSE]
    ELSE [store EXCEPT !.waiters = Tail(@)]

\* whether task t waits for the lock of a store
Waits(store, t) == \E i \in 1..Len(store.waiters) : store.waiters[i] = t

\* whether task t is inside the file access of the store named s
InFileAccess(t, s) ==
    pc[t] \in StoreAwaits /\ StoreOf(pc[t]) = s /\ ~Waits(stores[s], t)

\* the stores after task t reached the await named label
Arrive(st, t, label) ==
    IF label \in StoreAwaits
    THEN [st EXCEPT ![StoreOf(label)] = LockAcquire(@, t)]
    ELSE st

\* the counters of hist after a coroutine went on to k: a call that returned
\* True is counted for its promo code
Observe(h, k) ==
    IF k.pc = "done" /\ k.loc.op = "apply_promocode" /\ k.loc.ret = Some(TRUE)
    THEN [h EXCEPT !.applied[k.loc.code] = @ + 1]
    ELSE IF k.pc = "done" /\ k.loc.op = "use_promocode" /\ k.loc.ret = Some(TRUE)
    THEN [h EXCEPT !.used[k.loc.code] = @ + 1]
    ELSE IF k.pc = "done" /\ k.loc.op = "add_promocode" /\ k.loc.ret = Some(TRUE)
    THEN [h EXCEPT !.added[k.loc.code] = @ + 1]
    ELSE h

\* a panel create or update that succeeded on account of a promo code
Granted(h, l) ==
    IF l.op = "apply_promocode" THEN [h EXCEPT !.granted[l.code] = @ + 1] ELSE h

\* task t goes on to k, the stores being st and the counters h
Resume(t, k, st, h) ==
    /\ pc' = [pc EXCEPT ![t] = k.pc]
    /\ loc' = [loc EXCEPT ![t] = k.loc]
    /\ stores' = Arrive(st, t, k.pc)
    /\ hist' = Observe(h, k)

\* what the resource of a store is: a JSON list (the field file is that
\* list), another JSON value, UTF-8 text that is not JSON, bytes that are not
\* UTF-8 text, or no file at all
Contents == {"list", "other JSON", "not JSON", "not UTF-8", "missing"}

\* JSONDataStore.__init__: a file that does not exist is written with []
JSONDataStoreInit(store) ==
    IF store.content = "missing"
    THEN [store EXCEPT !.constructed = TRUE, !.content = "list", !.file = << >>]
    ELSE [store EXCEPT !.constructed = TRUE]

\* JSONDataStore._read_file: the list of the file; [] for another JSON value
\* and for a json.JSONDecodeError; open raises FileNotFoundError for a file
\* that is gone and json.load raises UnicodeDecodeError for bytes that are not
\* UTF-8, neither of which is caught
ReadFile(store) ==
    CASE store.content = "list"       -> [raised |-> FALSE, data |-> store.file]
      [] store.content = "other JSON" -> [raised |-> FALSE, data |-> << >>]
      [] store.content = "not JSON"   -> [raised |-> FALSE, data |-> << >>]
      [] store.content = "not UTF-8"  -> [raised |-> TRUE, data |-> << >>]
      [] store.content = "missing"    -> [raised |-> TRUE, data |-> << >>]

\* JSONDataStore._write_file: open(file_path, 'w') raises PermissionError for
\* a file that cannot be written; otherwise the file is the dumped list
WriteFile(store, data) ==
    IF store.readonly THEN [raised |-> TRUE, store |-> store]
    ELSE [raised |-> FALSE,
          store |-> [store EXCEPT !.content = "list", !.file = data]]

\* read_data: _read_file in the executor and the release of the lock, then
\* the caller's code
ReadData(t) ==
    /\ pc[t] \in ReadAwaits
    /\ InFileAccess(t, StoreOf(pc[t]))
    /\ ~ReadFile(stores[StoreOf(pc[t])]).raised
    /\ Resume(t, AfterRead(pc[t], loc[t], ReadFile(stores[StoreOf(pc[t])]).data),
              [stores EXCEPT ![StoreOf(pc[t])] = LockRelease(@)], hist)
    /\ UNCHANGED <<panel, now, calls>>

\* write_data: _write_file in the executor and the release of the lock, then
\* the caller's code
WriteData(t) ==
    /\ pc[t] \in WriteAwaits
    /\ InFileAccess(t, StoreOf(pc[t]))
    /\ ~WriteFile(stores[StoreOf(pc[t])], loc[t].data).raised
    /\ Resume(t, AfterWrite(pc[t], loc[t]),
              [stores EXCEPT ![StoreOf(pc[t])] =
                  LockRelease(WriteFile(@, loc[t].data).store)], hist)
    /\ UNCHANGED <<panel, now, calls>>

\* read_data when _read_file raises: async with releases the lock and the
\* exception reaches the caller's code
ReadDataRaises(t) ==
    /\ pc[t] \in ReadAwaits
    /\ InFileAccess(t, StoreOf(pc[t]))
    /\ ReadFile(stores[StoreOf(pc[t])]).raised
    /\ Resume(t, AfterRaise(pc[t], loc[t]),
              [stores EXCEPT ![StoreOf(pc[t])] = LockRelease(@)], hist)
    /\ UNCHANGED <<panel, now, calls>>

\* write_data when _write_file raises
WriteDataRaises(t) ==
    /\ pc[t] \in WriteAwaits
    /\ InFileAccess(t, StoreOf(pc[t]))
    /\ WriteFile(stores[StoreOf(pc[t])], loc[t].data).raised
    /\ Resume(t, AfterRaise(pc[t], loc[t]),
              [stores EXCEPT ![StoreOf(pc[t])] = LockRelease(@)], hist)
    /\ UNCHANGED <<panel, now, calls>>

\* users_store, promocodes_store, requests_store = JSONDataStore(...) when the
\* bot is launched, before any handler runs
NewJSONDataStore(s) ==
    /\ ~stores[s].constructed
    /\ stores' = [stores EXCEPT ![s] = JSONDataStoreInit(@)]
    /\ UNCHANGED <<panel, now, pc, loc, hist, calls>>

\* api.client.get_by_email(str(user_id)): the panel's client or None, or an exception
ApiGetByEmail(t) ==
    /\ pc[t] \in {"is_client_exists:get_by_email", "update_client:get_by_email",
                 "get_client_data:get_by_email"}
    /\ \E raised \in BOOLEAN :
         Resume(t, CASE pc[t] = "is_client_exists:get_by_email" ->
                          IsClientExistsAfterGet(loc[t], panel[loc[t].user_id], raised)
                     [] pc[t] = "update_client:get_by_email" ->
                          UpdateClientAfterGet(loc[t], panel[loc[t].user_id], raised)
                     [] pc[t] = "get_client_data:get_by_email" ->
                          GetClientDataAfterGet(loc[t], panel[loc[t].user_id], raised),
                stores, hist)
    /\ UNCHANGED <<panel, now, calls>>

\* api.client.add(inbound_id, [new_client]): the panel stores the client, or an
\* exception (the panel refuses an email it has already)
ApiAdd(t) ==
    /\ pc[t] = "create_client:add"
    /\ \/ /\ panel[loc[t].user_id] = None
          /\ panel' = [panel EXCEPT ![loc[t].user_id] = loc[t].client]
          /\ Resume(t, CreateClientAfterAdd(loc[t], FALSE), stores,
                    Granted(hist, loc[t]))
       \/ /\ UNCHANGED panel
          /\ Resume(t, CreateClientAfterAdd(loc[t], TRUE), stores, hist)
    /\ UNCHANGED <<now, calls>>

\* api.client.update(inbound_id, client.id, client): the panel stores the
\* client's new fields, or an exception
ApiUpdate(t) ==
    /\ pc[t] = "update_client:update"
    /\ \/ /\ panel[loc[t].user_id] # None
          /\ panel' = [panel EXCEPT ![loc[t].user_id] = loc[t].client]
          /\ Resume(t, UpdateClientAfterUpdate(loc[t], FALSE), stores,
                    Granted(hist, loc[t]))
       \/ /\ UNCHANGED panel
          /\ Resume(t, UpdateClientAfterUpdate(loc[t], TRUE), stores, hist)
    /\ UNCHANGED <<now, calls>>

\* the panel loses a client (its administrator deletes it in 3x-ui): what
\* update_client's "client is None" is there for
PanelDeleteClient(u) ==
    /\ panel[u] # None
    /\ panel' = [panel EXCEPT ![u] = None]
    /\ UNCHANGED <<stores, now, pc, loc, hist, calls>>

\* bot.send_message(chat_id=user_id, text=message) inside send_message_to_user:
\* delivered (True), or an exception that is logged (False)
SendMessage(t) ==
    /\ pc[t] = "send_message_to_user:send_message"
    /\ \E sent \in BOOLEAN : Resume(t, RespondAfterSend(loc[t], sent), stores, hist)
    /\ UNCHANGED <<panel, now, calls>>

(***************************************************************************)
(* The calls.  A task that runs nothing starts a coroutine, which runs to  *)
(* its first await.                                                        *)
(***************************************************************************)

Durations == {1, 30}
Devices   == {1, 2}

\* a task that runs no coroutine
Idle(t) == pc[t] \in {"idle", "done", "raised"}

Begin(t, k) ==
    /\ \A s \in StoreNames : stores[s].constructed
    /\ calls < MaxCalls
    /\ calls' = calls + 1
    /\ Resume(t, k, stores, hist)
    /\ UNCHANGED <<panel, now>>

\* VPNService.apply_promocode(user_id, promocode_code)
StartApplyPromocode(t) ==
    /\ Idle(t)
    /\ \E u \in UserIds, c \in Codes :
           Begin(t, Cont("get_promocode:read",
                         [NoLocals EXCEPT !.op = "apply_promocode", !.user_id = u, !.code = c]))

\* VPNService.get_client_data(user_id)
StartGetClientData(t) ==
    /\ Idle(t)
    /\ \E u \in UserIds :
           Begin(t, Cont("get_client_data:get_by_email",
                         [NoLocals EXCEPT !.op = "get_client_data", !.user_id = u]))

\* VPNService.extend_subscription(user_id, devices, duration)
StartExtendSubscription(t) ==
    /\ Idle(t)
    /\ \E u \in UserIds, n \in Devices, d \in Durations \cup {0} :
           Begin(t, Cont("get_user:read",
                         [NoLocals EXCEPT !.op = "extend_subscription", !.user_id = u,
                                          !.devices = n, !.duration = d]))

\* VPNService.create_subscription(user_id, devices, duration)
StartCreateSubscription(t) ==
    /\ Idle(t)
    /\ \E u \in UserIds, n \in Devices, d \in Durations \cup {0} :
           Begin(t, Cont("get_user:read",
                         [NoLocals EXCEPT !.op = "create_subscription", !.user_id = u,
                                          !.devices = n, !.duration = d]))

\* VPNService.respond_to_request(request_id, message)
StartRespondToRequest(t) ==
    /\ Idle(t)
    /\ \E r \in 1..MaxCalls :
           Begin(t, Cont("get_request:read",
                         [NoLocals EXCEPT !.op = "respond_to_request", !.request_id = r]))

\* process_request_id: an administrator names the request to answer
StartProcessRequestId(t) ==
    /\ Idle(t)
    /\ \E r \in {0, 1} :
           Begin(t, Cont("get_request:read",
                         [NoLocals EXCEPT !.op = "process_request_id", !.request_id = r]))

\* process_response_message: the administrator's message arrives and
\* respond_to_request is called with the id kept by process_request_id
ProcessResponseMessage(t) ==
    /\ pc[t] = "waiting_for_response_message"
    /\ Resume(t, Cont("get_request:read",
                       [NoLocals EXCEPT !.op = "respond_to_request",
                                        !.request_id = loc[t].request_id]),
              stores, hist)
    /\ UNCHANGED <<panel, now, calls>>

\* RequestService.create_request(request), with the Request that
\* process_request_details builds: a new id, status pending, the current time
StartCreateRequest(t) ==
    /\ Idle(t)
    /\ \E u \in UserIds :
           Begin(t, Cont("create_request:read",
                         [NoLocals EXCEPT !.op = "create_request", !.user_id = u,
                                          !.request_id = calls + 1,
                                          !.request = Some(Request(calls + 1, u, "pending",
                                                                   CurrentTimestamp))]))

\* VPNService.handle_user_request(user_id, details)
StartHandleUserRequest(t) ==
    /\ Idle(t)
    /\ \E u \in UserIds :
           Begin(t, HandleUserRequest([NoLocals EXCEPT !.op = "handle_user_request",
                                                      !.user_id = u]))

\* RequestService.list_requests(status_filter): cmd_view_requests asks for the
\* pending requests
StartListRequests(t) ==
    /\ Idle(t)
    /\ \E f \in {None, Some("pending"), Some("completed")} :
           Begin(t, Cont("list_requests:read",
                         [NoLocals EXCEPT !.op = "list_requests", !.status_filter = f]))

\* PromocodeService.get_promocode(code)
StartGetPromocode(t) ==
    /\ Idle(t)
    /\ \E c \in Codes :
           Begin(t, Cont("get_promocode:read",
                         [NoLocals EXCEPT !.op = "get_promocode", !.code = c]))

\* PromocodeService.use_promocode(code)
StartUsePromocode(t) ==
    /\ Idle(t)
    /\ \E c \in Codes :
           Begin(t, Cont("use_promocode:read",
                         [NoLocals EXCEPT !.op = "use_promocode", !.code = c]))

\* PromocodeService.add_promocode(code, duration_days)
StartAddPromocode(t) ==
    /\ Idle(t)
    /\ \E c \in Codes, d \in Durations :
           Begin(t, Cont("add_promocode:read",
                         [NoLocals EXCEPT !.op = "add_promocode", !.code = c, !.duration = d]))

\* PromocodeService.remove_promocode(code)
StartRemovePromocode(t) ==
    /\ Idle(t)
    /\ \E c \in Codes :
           Begin(t, Cont("remove_promocode:read",
                         [NoLocals EXCEPT !.op = "remove_promocode", !.code = c]))

\* PromocodeService.deactivate_promocode(code)
StartDeactivatePromocode(t) ==
    /\ Idle(t)
    /\ \E c \in Codes :
           Begin(t, Cont("deactivate_promocode:read",
                         [NoLocals EXCEPT !.op = "deactivate_promocode", !.code = c]))

\* PromocodeService.list_promocodes()
StartListPromocodes(t) ==
    /\ Idle(t)
    /\ Begin(t, Cont("list_promocodes:read", [NoLocals EXCEPT !.op = "list_promocodes"]))

(***************************************************************************)
(* The initial states: the files as an earlier run of the bot may have     *)
(* left them, the locks free, every task idle.                             *)
(***************************************************************************)

\* 2026-11-06T08:03:32.591Z
Now2026 == Ms(1793959, 412591)
\* 2038-01-19T03:14:08.002Z
Date2038 == Ms(2147483, 648002)
\* 2027-01-15T08:00:00.000Z
Date2027 == Ms(1800000, 0)
\* 2023-11-14T22:13:20.000Z
Date2023 == Ms(1700000, 0)

\* a ledger without duplicates: each code is absent, active or inactive
LedgerOf(f) ==
    SelectSeq([c \in 1..NumCodes |-> Promocode(c, 30, f[c] = "active")],
              LAMBDA promo : f[promo.code] # "absent")
Ledgers == {LedgerOf(f) : f \in [Codes -> {"absent", "active", "inactive"}]}

\* a users file: the records of the users 1..n
UsersUpTo(n) == [i \in 1..n |-> User(i)]

StoresOf(users_file, promocodes_file, requests_file) ==
    [name \in StoreNames |->
        [file |-> CASE name = USERS_FILE      -> users_file
                    [] name = PROMOCODES_FILE -> promocodes_file
                    [] name = REQUESTS_FILE   -> requests_file,
         content |-> "list", readonly |-> FALSE, constructed |-> TRUE,
         locked |-> FALSE, waiters |-> << >>]]

InitTasks ==
    /\ pc = [t \in Tasks |-> "idle"]
    /\ loc = [t \in Tasks |-> NoLocals]
    /\ hist = [applied |-> [c \in Codes |-> 0], granted |-> [c \in Codes |-> 0],
               used |-> [c \in Codes |-> 0], added |-> [c \in Codes |-> 0]]
    /\ calls = 0

(***************************************************************************)
(* The subscription engine: concurrent apply_promocode calls.              *)
(***************************************************************************)

Init ==
    /\ InitTasks
    /\ \E n \in 0..1, ledger \in Ledgers :
           stores = StoresOf(UsersUpTo(n), ledger, << >>)
    /\ panel \in [UserIds -> {None, Some(Client(2, Date2038))}]
    /\ now = Now2026

Next ==
    \E t \in Tasks :
        \/ StartApplyPromocode(t)
        \/ ReadData(t)
        \/ WriteData(t)
        \/ ApiGetByEmail(t)
        \/ ApiAdd(t)
        \/ ApiUpdate(t)

Spec == Init /\ [][Next]_vars

(***************************************************************************)
(* The promo code ledger: concurrent PromocodeService calls.               *)
(***************************************************************************)

PromoInit ==
    /\ InitTasks
    /\ \E ledger \in Ledgers : stores = StoresOf(<< >>, ledger, << >>)
    /\ panel = [u \in UserIds |-> None]
    /\ now = Now2026

PromoNext ==
    \E t \in Tasks :
        \/ StartGetPromocode(t)
        \/ StartUsePromocode(t)
        \/ StartAddPromocode(t)
        \/ StartDeactivatePromocode(t)
        \/ StartListPromocodes(t)
        \/ ReadData(t)
        \/ WriteData(t)

PromoSpec == PromoInit /\ [][PromoNext]_vars

(***************************************************************************)
(* The promo code ledger when no two calls overlap: a call starts only     *)
(* while no other task runs one.                                           *)
(***************************************************************************)

Alone(t) == \A o \in Tasks \ {t} : Idle(o)

PromoSeqNext ==
    \E t \in Tasks :
        \/ Alone(t) /\ StartGetPromocode(t)
        \/ Alone(t) /\ StartUsePromocode(t)
        \/ Alone(t) /\ StartAddPromocode(t)
        \/ Alone(t) /\ StartDeactivatePromocode(t)
        \/ Alone(t) /\ StartListPromocodes(t)
        \/ ReadData(t)
        \/ WriteData(t)

PromoSeqSpec == PromoInit /\ [][PromoSeqNext]_vars

(***************************************************************************)
(* The request ledger and the administrator's response.                    *)
(***************************************************************************)

\* the request file is empty, or holds a request answered earlier
RequestInit ==
    /\ InitTasks
    /\ \E earlier \in {<< >>, <<Request(0, 1, "completed", Date2023)>>} :
           stores = StoresOf(<< >>, << >>, earlier)
    /\ panel = [u \in UserIds |-> None]
    /\ now = Now2026

RequestNext ==
    \E t \in Tasks :
        \/ StartCreateRequest(t)
        \/ StartHandleUserRequest(t)
        \/ StartRespondToRequest(t)
        \/ StartListRequests(t)
        \/ ReadData(t)
        \/ WriteData(t)
        \/ SendMessage(t)

RequestSpec == RequestInit /\ [][RequestNext]_vars

(***************************************************************************)
(* extend_subscription and create_subscription on every clock and every    *)
(* stored expiry.                                                          *)
(***************************************************************************)

Expiries == {<< >>, Date2023, Now2026, Date2027, Date2038}

ExpiryInit ==
    /\ InitTasks
    /\ \E n \in 0..NumUsers : stores = StoresOf(UsersUpTo(n), << >>, << >>)
    /\ \E c \in {None} \cup {Some(Client(1, e)) : e \in Expiries} :
           panel = [u \in UserIds |-> c]
    /\ now \in {Now2026, Date2038}

ExpiryNext ==
    \E t \in {"t1"} :
        \/ StartExtendSubscription(t)
        \/ StartCreateSubscription(t)
        \/ ReadData(t)
        \/ WriteData(t)
        \/ ApiGetByEmail(t)
        \/ ApiAdd(t)
        \/ ApiUpdate(t)

ExpirySpec == ExpiryInit /\ [][ExpiryNext]_vars

(***************************************************************************)
(* The user mapping: apply_promocode and create_subscription calls, which  *)
(* create the record of a user that has none.                              *)
(***************************************************************************)

UserInit ==
    /\ InitTasks
    /\ \E n \in 0..NumUsers :
           stores = StoresOf(UsersUpTo(n), LedgerOf([c \in Codes |-> "active"]), << >>)
    /\ panel = [u \in UserIds |-> None]
    /\ now = Now2026

\* the calls differ in their user only: the code, the devices and the
\* duration do not reach the users store
UserNext ==
    \E t \in Tasks :
        \/ StartApplyPromocode(t) /\ loc'[t].code = 1
        \/ StartCreateSubscription(t) /\ loc'[t].devices = 1 /\ loc'[t].duration = 30
        \/ ReadData(t)
        \/ WriteData(t)
        \/ ApiGetByEmail(t)
        \/ ApiAdd(t)
        \/ ApiUpdate(t)

UserSpec == UserInit /\ [][UserNext]_vars

(***************************************************************************)
(* The stores on every kind of resource: the bot is launched on files that *)
(* an earlier run or another program left, constructs its stores, and one  *)
(* task calls the promo ledger and apply_promocode.                        *)
(***************************************************************************)

\* a store not yet constructed on a resource
Resource(content, file, readonly) ==
    [file |-> file, content |-> content, readonly |-> readonly,
     constructed |-> FALSE, locked |-> FALSE, waiters |-> << >>]

\* the promo codes file: a ledger, or any other kind of resource; a file
\* that is there may be one the bot cannot write
PromocodeResources ==
    {Resource("list", ledger, ro) : ledger \in Ledgers, ro \in BOOLEAN}
      \cup {Resource(c, << >>, ro) : c \in Contents \ {"list", "missing"}, ro \in BOOLEAN}
      \cup {Resource("missing", << >>, FALSE)}

\* the users file
UserResources ==
    {Resource("list", UsersUpTo(n), FALSE) : n \in 0..1}
      \cup {Resource(c, << >>, FALSE) : c \in {"not JSON", "not UTF-8", "missing"}}

StoreInit ==
    /\ InitTasks
    /\ \E u \in UserResources, p \in PromocodeResources :
           stores = [name \in StoreNames |->
                        CASE name = USERS_FILE      -> u
                          [] name = PROMOCODES_FILE -> p
                          [] name = REQUESTS_FILE   -> Resource("missing", << >>, FALSE)]
    /\ panel = [u \in UserIds |-> None]
    /\ now = Now2026

StoreNext ==
    \/ \E s \in StoreNames : NewJSONDataStore(s)
    \/ \E t \in {"t1"} :
        \/ StartApplyPromocode(t) /\ loc'[t].code = 1 /\ loc'[t].user_id = 1
        \/ StartGetPromocode(t)
        \/ StartUsePromocode(t)
        \/ StartAddPromocode(t)
        \/ StartDeactivatePromocode(t)
        \/ StartListPromocodes(t)
        \/ ReadData(t)
        \/ WriteData(t)
        \/ ReadDataRaises(t)
        \/ WriteDataRaises(t)
        \/ ApiGetByEmail(t)
        \/ ApiAdd(t)
        \/ ApiUpdate(t)

StoreSpec == StoreInit /\ [][StoreNext]_vars

(***************************************************************************)
(* A panel that loses clients while one task applies promo codes and       *)
(* extends subscriptions.                                                  *)
(***************************************************************************)

PanelInit ==
    /\ InitTasks
    /\ \E n \in 0..NumUsers :
           stores = StoresOf(UsersUpTo(n), LedgerOf([c \in Codes |-> "active"]), << >>)
    /\ panel \in [UserIds -> {None, Some(Client(2, Date2027))}]
    /\ now = Now2026

PanelNext ==
    \/ \E u \in UserIds : PanelDeleteClient(u)
    \/ \E t \in {"t1"} :
        \/ StartApplyPromocode(t)
        \/ StartExtendSubscription(t) /\ loc'[t].duration = 30
        \/ ReadData(t)
        \/ WriteData(t)
        \/ ApiGetByEmail(t)
        \/ ApiAdd(t)
        \/ ApiUpdate(t)

PanelSpec == PanelInit /\ [][PanelNext]_vars

(***************************************************************************)
(* get_client_data on every state of a panel client: limits, quotas,       *)
(* traffic and expiries that are zero, negative and positive.              *)
(***************************************************************************)

PanelClients ==
    {PanelClient(limit_ip, total, up, down, expiry_time) :
        limit_ip \in {0, 1, 3}, total \in {-5, 0, 1, 10}, up \in {0, 4},
        down \in {0, 7}, expiry_time \in {-1, 0, 1800000}}

ClientDataInit ==
    /\ InitTasks
    /\ stores = StoresOf(<< >>, << >>, << >>)
    /\ \E c \in {None} \cup {Some(client) : client \in PanelClients} :
           panel = [u \in UserIds |-> c]
    /\ now = Now2026

ClientDataNext ==
    \E t \in {"t1"} :
        \/ StartGetClientData(t)
        \/ ApiGetByEmail(t)

ClientDataSpec == ClientDataInit /\ [][ClientDataNext]_vars

(***************************************************************************)
(* The administrators' respond flow: each task is the conversation of one  *)
(* administrator; the request file holds an answered request and a pending *)
(* one.                                                                    *)
(***************************************************************************)

AdminInit ==
    /\ InitTasks
    /\ stores = StoresOf(<< >>, << >>, <<Request(0, 1, "completed", Date2023),
                                         Request(1, 2, "pending", Date2023)>>)
    /\ panel = [u \in UserIds |-> None]
    /\ now = Now2026

AdminNext ==
    \E t \in Tasks :
        \/ StartProcessRequestId(t)
        \/ ProcessResponseMessage(t)
        \/ ReadData(t)
        \/ WriteData(t)
        \/ SendMessage(t)

AdminSpec == AdminInit /\ [][AdminNext]_vars

(***************************************************************************)
(* The request ledger on a file that cannot be written, or cannot be read. *)
(***************************************************************************)

RequestResources ==
    {[Resource("list", <<Request(1, 1, "pending", Date2023)>>, ro)
         EXCEPT !.constructed = TRUE] : ro \in BOOLEAN}
      \cup {[Resource("not UTF-8", << >>, FALSE) EXCEPT !.constructed = TRUE]}

RequestFaultInit ==
    /\ InitTasks
    /\ \E r \in RequestResources :
           stores = [StoresOf(<< >>, << >>, << >>) EXCEPT ![REQUESTS_FILE] = r]
    /\ panel = [u \in UserIds |-> None]
    /\ now = Now2026

RequestFaultNext ==
    \E t \in Tasks :
        \/ StartCreateRequest(t)
        \/ StartRespondToRequest(t)
        \/ StartListRequests(t)
        \/ ReadData(t)
        \/ WriteData(t)
        \/ ReadDataRaises(t)
        \/ WriteDataRaises(t)
        \/ SendMessage(t)

RequestFaultSpec == RequestFaultInit /\ [][RequestFaultNext]_vars

(***************************************************************************)
(* The promo code ledger under the calls that write it: concurrent         *)
(* add_promocode, remove_promocode, use_promocode and deactivate_promocode. *)
(***************************************************************************)

LedgerNext ==
    \E t \in Tasks :
        \/ StartAddPromocode(t)
        \/ StartRemovePromocode(t)
        \/ StartUsePromocode(t)
        \/ StartDeactivatePromocode(t)
        \/ ReadData(t)
        \/ WriteData(t)

LedgerSpec == PromoInit /\ [][LedgerNext]_vars

(***************************************************************************)
(* Termination: apply_promocode, create_request and respond_to_request of  *)
(* two tasks on all three stores.  The event loop runs every coroutine     *)
(* whose await has finished: the file access of the task that has the      *)
(* lock, run by the executor, ends, and the panel and Telegram calls       *)
(* return or raise.                                                        *)
(***************************************************************************)

LiveInit ==
    /\ InitTasks
    /\ stores = StoresOf(<< >>, LedgerOf([c \in Codes |-> "active"]),
                         <<Request(0, 1, "pending", Date2023)>>)
    /\ panel = [u \in UserIds |-> None]
    /\ now = Now2026

LiveNext ==
    \E t \in Tasks :
        \/ StartApplyPromocode(t) /\ loc'[t].code = 1
        \/ StartCreateRequest(t) /\ loc'[t].user_id = 1
        \/ StartRespondToRequest(t) /\ loc'[t].request_id = 1
        \/ ReadData(t)
        \/ WriteData(t)
        \/ ApiGetByEmail(t)
        \/ ApiAdd(t)
        \/ ApiUpdate(t)
        \/ SendMessage(t)

\* the step that ends a file access, a panel write or a Telegram send
Resumed(t) ==
    \/ ReadData(t) \/ WriteData(t)
    \/ ApiAdd(t) \/ ApiUpdate(t)
    \/ SendMessage(t)

\* the awaits at which api.client.get_by_email is pending: there, and only
\* there, ApiGetByEmail(t) can be taken
AtGetByEmail(t) ==
    pc[t] \in {"is_client_exists:get_by_email", "update_client:get_by_email",
               "get_client_data:get_by_email"}

\* weak fairness of every task's steps; that of ApiGetByEmail(t) is written
\* out, with AtGetByEmail(t) for its enabling condition
Fairness ==
    \A t \in Tasks :
        /\ WF_vars(Resumed(t))
        /\ []<>(~AtGetByEmail(t)) \/ []<><<ApiGetByEmail(t)>>_vars

LiveSpec == LiveInit /\ [][LiveNext]_vars /\ Fairness

(***************************************************************************)
(* Properties.                                                             *)
(***************************************************************************)

\* the step is one of task t
StepOf(t) == pc'[t] # pc[t] \/ loc'[t] # loc[t]

\* the statuses a request file stores for a request id
StatusOf(data, request_id) ==
    {data[i].status : i \in Matching(data, LAMBDA r : r.request_id = request_id)}

\* the request ids of a request file
RequestIds(data) == {data[i].request_id : i \in 1..Len(data)}

\* whether a promo file holds a record of the code, and none of them active
Inactive(data, code) ==
    /\ \E i \in 1..Len(data) : data[i].code = code
    /\ ActiveMatches(data, code) = {}

\* a task whose call of the operation op has returned
Returned(t, op) == pc[t] = "done" /\ loc[t].op = op

\* C1: a promo code is single-use at the engine level: over any interleaving
\* of apply_promocode calls naming code c, at most one call returns True and
\* at most one panel create/update is made on account of c.
C1_SingleUse ==
    \A c \in Codes : hist.applied[c] <= 1 /\ hist.granted[c] <= 1

\* C2: of the use_promocode calls on a code, at most one returns True (two
\* concurrent ones give one True and one False), and once one has returned
\* True the ledger holds no active record of the code, so that
\* get_promocode gives None.
C2_OneRedemption ==
    \A c \in Codes :
        /\ hist.used[c] <= 1
        /\ hist.used[c] >= 1 => ActiveMatches(promocodes, c) = {}

\* C3: a respond_to_request call whose notification failed does not change
\* the stored status of its request, and returns False.
C3_FailedSendLeavesPending ==
    [][\A t \in Tasks :
          (StepOf(t) /\ loc[t].op = "respond_to_request" /\ pc[t] # "done"
                     /\ loc[t].sent = Some(FALSE))
          => /\ StatusOf(requests', loc[t].request_id)
                    = StatusOf(requests, loc[t].request_id)
             /\ pc'[t] = "done" => loc'[t].ret = Some(FALSE)]_vars

\* C4: apply_promocode writes the promo ledger only after its panel create
\* or update has succeeded; when that call fails, apply_promocode returns
\* False at once and leaves the ledger as it is, the code still active.
C4_ConsumeOnlyAfterGrant ==
    [][\A t \in Tasks :
          (StepOf(t) /\ loc[t].op = "apply_promocode")
          => /\ promocodes' # promocodes
                  => /\ loc[t].success = Some(TRUE)
                     /\ hist.granted[loc[t].code] >= 1
             /\ (loc[t].success = None /\ loc'[t].success = Some(FALSE))
                  => /\ pc'[t] = "done"
                     /\ loc'[t].ret = Some(FALSE)
                     /\ promocodes' = promocodes]_vars

\* an apply_promocode call whose panel call failed has returned, and
\* get_promocode still finds the code
C4_Witness ==
    \E t \in Tasks :
        /\ Returned(t, "apply_promocode")
        /\ loc[t].success = Some(FALSE)
        /\ ActiveMatches(promocodes, loc[t].code) # {}

\* C5: no update of a store is lost: the record of every create_request call
\* that has returned True is in the request file.
C5_NoLostUpdate ==
    \A t \in Tasks :
        (Returned(t, "create_request") /\ loc[t].ret = Some(TRUE))
        => loc[t].request_id \in RequestIds(requests)

\* C6: a promo code never becomes active again: once the ledger's record of
\* a code is inactive, it is inactive in the next state of the ledger.
C6_NeverActiveAgain ==
    [][\A c \in Codes :
          Inactive(promocodes, c) => Inactive(promocodes', c)]_vars

\* C7: pending -> completed is one-way: a request stored as completed is not
\* stored as pending afterwards, and no other status is ever stored.
C7_OneWayStatus ==
    [][/\ \A i \in 1..Len(requests) : requests[i].status \in {"pending", "completed"}
       /\ \A r \in RequestIds(requests) :
              StatusOf(requests, r) = {"completed"}
              => "pending" \notin StatusOf(requests', r)]_vars

\* a request file after the status of the request r became completed
Completed(data, r) ==
    [i \in 1..Len(data) |->
        IF data[i].request_id = r THEN [data[i] EXCEPT !.status = "completed"]
        ELSE data[i]]

\* C8: the write that ends create_request stores the new request as pending
\* and the call returns True; respond_to_request on an existing request whose
\* notification was sent returns True, and its write leaves the request file
\* with that request completed and every other record as it was.
C8_RequestLifecycle ==
    [][\A t \in Tasks :
          /\ (StepOf(t) /\ pc[t] = "create_request:write")
                => /\ StatusOf(requests', loc[t].request_id) = {"pending"}
                   /\ loc'[t].ret = Some(TRUE)
          /\ (StepOf(t) /\ loc[t].op = "respond_to_request" /\ pc[t] # "done"
                        /\ loc[t].sent = Some(TRUE))
                => IF pc'[t] = "done"
                   THEN /\ loc'[t].ret = Some(TRUE)
                        /\ loc[t].request_id \in RequestIds(requests)
                        /\ requests' = Completed(requests, loc[t].request_id)
                        /\ StatusOf(requests', loc[t].request_id) = {"completed"}
                   ELSE requests' = requests]_vars

\* C9: respond_to_request on an id the request file does not hold returns
\* False when get_request has read the file; it sends no notification and
\* leaves the file as it is.
C9_UnknownRequest ==
    [][\A t \in Tasks :
          (StepOf(t) /\ pc[t] = "get_request:read"
                     /\ loc[t].request_id \notin RequestIds(requests))
          => /\ pc'[t] = "done"
             /\ loc'[t].ret = Some(FALSE)
             /\ loc'[t].sent = None
             /\ requests' = requests]_vars

\* a response to an unknown id has returned False without a notification,
\* the file holding other requests
C9_Witness ==
    \E t \in Tasks :
        /\ Returned(t, "respond_to_request")
        /\ loc[t].ret = Some(FALSE)
        /\ loc[t].sent = None
        /\ loc[t].request_id \notin RequestIds(requests)
        /\ requests # << >>

\* C10: extension never shortens: a successful extend_subscription(user,
\* devices, d) of a client with expiry E stores the expiry E + d days when
\* E > now and now + d days when E <= now, which is >= E and >= now.
C10_ExtensionNeverShortens ==
    [][\A t \in Tasks :
          (StepOf(t) /\ pc[t] = "update_client:update"
                     /\ loc[t].op = "extend_subscription"
                     /\ loc'[t].ret = Some(TRUE))
          => LET E   == panel[loc[t].user_id][1].expiry_time
                 new == panel'[loc[t].user_id][1].expiry_time
             IN  /\ new = IF BLess(now, E) THEN TsPlusDays(E, loc[t].duration)
                          ELSE TsPlusDays(now, loc[t].duration)
                 /\ BLeq(E, new)
                 /\ BLeq(now, new)]_vars

\* C11: replace resets fully: a successful update_client(user, N, D,
\* replace_devices=true, replace_duration=true), as create_subscription calls
\* it for an existing client, stores the device limit N and the expiry
\* now + D days, whatever the client's limit and expiry were.
C11_ReplaceResetsFully ==
    [][\A t \in Tasks :
          (StepOf(t) /\ pc[t] = "update_client:update"
                     /\ loc[t].replace_devices /\ loc[t].replace_duration
                     /\ loc'[t].ret = Some(TRUE))
          => LET new == panel'[loc[t].user_id][1]
             IN  /\ new.limit_ip = loc[t].devices
                 /\ new.expiry_time = TsPlusDays(now, loc[t].duration)]_vars

\* C12: apply_promocode for a user whose panel client exists sends that
\* client with its device limit unchanged and the expiry max(old expiry,
\* now) + the promo's days, and a successful update stores it; for a user
\* without a client, a successful create stores the device limit 1 and the
\* expiry now + the promo's days.
C12_PromoGrant ==
    [][\A t \in Tasks :
          (StepOf(t) /\ loc[t].op = "apply_promocode")
          => LET old  == panel[loc[t].user_id]
                 days == loc[t].promocode[1].duration_days
             IN  /\ (pc[t] = "update_client:get_by_email"
                        /\ pc'[t] = "update_client:update")
                      => loc'[t].client =
                            Some(Client(old[1].limit_ip,
                                        TsPlusDays(BMax(old[1].expiry_time, now), days)))
                 /\ (pc[t] = "update_client:update" /\ loc'[t].success = Some(TRUE))
                      => panel'[loc[t].user_id] = loc[t].client
                 /\ (pc[t] = "create_client:add" /\ loc'[t].success = Some(TRUE))
                      => /\ old = None
                         /\ panel'[loc[t].user_id] =
                               Some(Client(1, TsPlusDays(now, days)))]_vars

\* the indices of the records a users file holds for a user id
UserRecords(data, user_id) == Matching(data, LAMBDA u : u.user_id = user_id)

\* C13: the user mapping is idempotent: under any interleaving of
\* apply_promocode and create_subscription calls the users store holds at
\* most one record per user id, and every record stored and every User a
\* call got or made for user_id has the vpn identity vpn_<user_id>.
C13_IdempotentMapping ==
    /\ \A u \in UserIds : Cardinality(UserRecords(users, u)) <= 1
    /\ \A i \in 1..Len(users) : users[i] = User(users[i].user_id)
    /\ \A t \in Tasks : loc[t].user # None => loc[t].user = Some(User(loc[t].user_id))

\* both tasks have saved the record of the same user, which the store holds
C13_Witness ==
    \E u \in UserIds :
        /\ \A t \in Tasks :
              /\ loc[t].user_id = u
              /\ loc[t].op \in {"apply_promocode", "create_subscription"}
              /\ pc[t] \in {"is_client_exists:get_by_email", "create_client:add",
                           "update_client:get_by_email", "update_client:update"}
              /\ UserRecords(loc[t].data, u) # {}
        /\ UserRecords(users, u) # {}

\* C14: a user record is never deleted: once the users store holds a record
\* of user u, it holds one in the next state, whatever call takes the step.
C14_UserNeverDeleted ==
    [][\A u \in UserIds :
          UserRecords(users, u) # {} => UserRecords(users', u) # {}]_vars

\* the indices of the records a promo file holds for a code
CodeRecords(data, code) == Matching(data, LAMBDA promo_data : promo_data.code = code)

\* C15: promo uniqueness: add_promocode(c, d) that reads a ledger with a
\* record of c, active or not, returns False and leaves the ledger as it is;
\* of the add_promocode calls for c made one after another at most one
\* returns True, none when the ledger held c from the start, also with c
\* redeemed or deactivated in between, and the ledger holds c once.
C15_PromoUniqueness ==
    [][/\ \A t \in Tasks :
              (StepOf(t) /\ pc[t] = "add_promocode:read"
                         /\ CodeRecords(promocodes, loc[t].code) # {})
              => /\ pc'[t] = "done"
                 /\ loc'[t].ret = Some(FALSE)
                 /\ promocodes' = promocodes
       /\ \A c \in Codes :
              /\ hist.added[c] <= 1
              /\ Cardinality(CodeRecords(promocodes, c)) <= 1
              /\ hist.added[c] = 1 => CodeRecords(promocodes, c) # {}
              /\ (CodeRecords(promocodes, c) # {} /\ hist.added[c] = 0)
                    => hist.added'[c] = 0]_vars

\* add_promocode of a code has returned True, the code has been made
\* inactive, and a second add_promocode of the code has returned False
C15_Witness ==
    \E t \in Tasks :
        /\ Returned(t, "add_promocode")
        /\ loc[t].ret = Some(FALSE)
        /\ hist.added[loc[t].code] = 1
        /\ Inactive(promocodes, loc[t].code)

\* the k-th smallest member of a set of indices
Nth(S, k) == CHOOSE i \in S : Cardinality({j \in S : j <= i}) = k

\* C16: list_requests(status_filter="pending") returns exactly the requests
\* of the file whose stored status is pending, each once, in the order of
\* the file; without a filter it returns every request in that order.
C16_ListingFilter ==
    [][\A t \in Tasks :
          (StepOf(t) /\ pc[t] = "list_requests:read")
          => LET f    == loc[t].status_filter
                 idx  == {i \in 1..Len(requests) :
                             f # None => requests[i].status = f[1]}
                 list == loc'[t].ret[1]
             IN  /\ pc'[t] = "done"
                 /\ Len(list) = Cardinality(idx)
                 /\ \A k \in 1..Len(list) : list[k] = requests[Nth(idx, k)]]_vars

\* the pending requests have been listed from a file that holds a completed
\* request before a pending one: the list is shorter than the file
C16_Witness ==
    \E t \in Tasks :
        /\ Returned(t, "list_requests")
        /\ loc[t].status_filter = Some("pending")
        /\ Len(loc[t].ret[1]) = 1
        /\ Len(requests) = 2
        /\ requests[1].status = "completed"
        /\ loc[t].ret[1][1] = requests[2]

\* the file access that task t is inside raises
AccessRaises(t) ==
    /\ pc[t] \in StoreAwaits
    /\ InFileAccess(t, StoreOf(pc[t]))
    /\ IF pc[t] \in ReadAwaits THEN ReadFile(stores[StoreOf(pc[t])]).raised
       ELSE WriteFile(stores[StoreOf(pc[t])], loc[t].data).raised

\* C17: when a store read or write fails during apply_promocode or an
\* operation of the promo ledger, the operation returns (None from
\* get_promocode, False from the others) and no error escapes to its caller.
C17_FaultsBecomeResults ==
    [][\A t \in Tasks :
          (StepOf(t) /\ AccessRaises(t))
          => /\ pc'[t] = "done"
             /\ loc'[t].ret = IF loc[t].op = "get_promocode" THEN Some(None)
                              ELSE Some(FALSE)]_vars

\* C18: a read of a store whose file is not valid JSON, or is JSON but not a
\* list, gives the caller the empty list and raises nothing; the construction
\* of a store on a file that does not exist leaves a file that reads as the
\* empty list.
C18_LenientStore ==
    [][/\ \A s \in StoreNames :
              (~stores[s].constructed /\ stores'[s].constructed
                 /\ stores[s].content = "missing")
              => ReadFile(stores'[s]) = [raised |-> FALSE, data |-> << >>]
       /\ \A t \in Tasks :
              (StepOf(t) /\ pc[t] \in ReadAwaits /\ InFileAccess(t, StoreOf(pc[t]))
                 /\ stores[StoreOf(pc[t])].content
                        \in {"other JSON", "not JSON", "not UTF-8"})
              => /\ pc'[t] = AfterRead(pc[t], loc[t], << >>).pc
                 /\ loc'[t] = AfterRead(pc[t], loc[t], << >>).loc]_vars

\* a ledger without the inactive records of a code
WithoutInactive(data, code) ==
    SelectSeq(data, LAMBDA promo : ~(promo.code = code /\ ~promo.active))

\* C19: get_promocode(c) returns a record of the ledger that has the code c
\* and is active, and None when the ledger has no such record; on a ledger
\* with an inactive record of c, get_promocode(c) and apply_promocode(u, c)
\* go on exactly as on the same ledger without that record, and with no
\* active record of c apply_promocode returns False; the lookup changes no
\* file, no client of the panel and no counter.
C19_InactiveAsAbsent ==
    [][\A t \in Tasks :
          (StepOf(t) /\ pc[t] = "get_promocode:read" /\ ~AccessRaises(t))
          => LET c      == loc[t].code
                 data   == ReadFile(stores[PROMOCODES_FILE]).data
                 active == {i \in 1..Len(data) : data[i].code = c /\ data[i].active}
                 absent == AfterRead(pc[t], loc[t], WithoutInactive(data, c))
             IN  /\ pc'[t] = absent.pc /\ loc'[t] = absent.loc
                 /\ loc[t].op = "get_promocode"
                      => /\ pc'[t] = "done"
                         /\ IF active = {} THEN loc'[t].ret = Some(None)
                            ELSE \E i \in active : loc'[t].ret = Some(Some(data[i]))
                 /\ (loc[t].op = "apply_promocode" /\ active = {})
                      => pc'[t] = "done" /\ loc'[t].ret = Some(FALSE)
                 /\ \A s \in StoreNames : stores'[s].file = stores[s].file
                 /\ panel' = panel /\ hist' = hist]_vars

\* apply_promocode has returned False for a code of which the ledger holds
\* an inactive record, with no client created and nothing granted
C19_Witness ==
    \E t \in Tasks :
        /\ Returned(t, "apply_promocode")
        /\ loc[t].ret = Some(FALSE)
        /\ loc[t].promocode = None
        /\ Inactive(promocodes, loc[t].code)
        /\ stores[PROMOCODES_FILE].content = "list"
        /\ panel[loc[t].user_id] = None
        /\ hist.granted[loc[t].code] = 0

\* C20: a submission that ends (handle_user_request, or the create_request
\* of process_request_details) has made a request with status pending, an
\* id the file did not hold and the current timestamp, the file holds that
\* request exactly once, and the step changes no client of the panel, no
\* user record and no promo code.
C20_SubmitCreatesPending ==
    [][\A t \in Tasks :
          (StepOf(t) /\ pc'[t] = "done"
                     /\ loc'[t].op \in {"handle_user_request", "create_request"})
          => LET new == loc'[t].request
             IN  /\ new # None
                 /\ new[1].status = "pending"
                 /\ new[1].timestamp = CurrentTimestamp
                 /\ new[1].request_id \notin RequestIds(requests)
                 /\ Cardinality({i \in 1..Len(requests') : requests'[i] = new[1]}) = 1
                 /\ panel' = panel /\ users' = users /\ promocodes' = promocodes]_vars

\* C21: a create_subscription(user_id, N, D) that returns True leaves the
\* panel's client of the user with the device limit N and the expiry
\* now + D days, by a create when the client was absent and by an update
\* when it existed, and the users file holds the user's record by then.
C21_ManualProvisioningResets ==
    [][\A t \in Tasks :
          (StepOf(t) /\ loc[t].op = "create_subscription"
                     /\ pc[t] \in {"create_client:add", "update_client:update"}
                     /\ loc'[t].ret = Some(TRUE))
          => /\ (pc[t] = "create_client:add") = (panel[loc[t].user_id] = None)
             /\ panel'[loc[t].user_id] =
                   Some(Client(loc[t].devices, TsPlusDays(now, loc[t].duration)))
             /\ UserRecords(users, loc[t].user_id) # {}]_vars

\* C22: the write by which respond_to_request stores a request as completed
\* comes after the call's notification to the user of that request, and is
\* made only when that notification was delivered.
C22_NotifyThenTransition ==
    [][\A t \in Tasks :
          (StepOf(t) /\ pc[t] = "update_request_status:write"
                     /\ loc[t].op = "respond_to_request")
          => /\ loc[t].request # None
             /\ loc[t].request[1].request_id = loc[t].request_id
             /\ loc[t].sent # None
             /\ loc[t].sent = Some(TRUE)]_vars

\* C23: of the read_data and write_data calls on one store, at most one is
\* inside its file access in any state, and the store's lock is held then;
\* every other call on that store waits for the lock.
C23_MutualExclusion ==
    \A s \in StoreNames :
        LET inside == {t \in Tasks : InFileAccess(t, s)}
        IN  /\ Cardinality(inside) <= 1
            /\ inside # {} => stores[s].locked
            /\ \A t \in Tasks :
                   (pc[t] \in StoreAwaits /\ StoreOf(pc[t]) = s /\ t \notin inside)
                   => inside # {} /\ Waits(stores[s], t)

\* a write_data call is inside its file access while a read_data call on the
\* same store waits for the lock
C23_Witness ==
    \E w \in Tasks, r \in Tasks :
        /\ pc[w] \in WriteAwaits /\ pc[r] \in ReadAwaits
        /\ StoreOf(pc[w]) = StoreOf(pc[r])
        /\ InFileAccess(w, StoreOf(pc[w]))
        /\ Waits(stores[StoreOf(pc[r])], r)

\* C24: update_client that fetches no client of the user returns False and
\* sends no update to the panel; when that happens inside apply_promocode,
\* whose existence check had found the client, apply_promocode returns
\* False, the ledger is not written and the code is still active.
C24_AbsentClientNotUpdated ==
    [][\A t \in Tasks :
          (StepOf(t) /\ pc[t] = "update_client:get_by_email"
                     /\ panel[loc[t].user_id] = None)
          => /\ pc'[t] = "done"
             /\ loc'[t].success = Some(FALSE)
             /\ loc'[t].ret = Some(FALSE)
             /\ panel' = panel
             /\ loc[t].op = "apply_promocode"
                  => /\ promocodes' = promocodes
                     /\ \E i \in 1..Len(promocodes') :
                            /\ promocodes'[i].code = loc[t].code
                            /\ promocodes'[i].active]_vars

\* apply_promocode has returned False after it went into update_client (the
\* existence check had found the client) and the panel has no client of
\* the user any more; the code is still active
C24_Witness ==
    \E t \in Tasks :
        /\ Returned(t, "apply_promocode")
        /\ loc[t].ret = Some(FALSE)
        /\ loc[t].success = Some(FALSE)
        /\ loc[t].devices = 0
        /\ loc[t].duration = loc[t].promocode[1].duration_days
        /\ panel[loc[t].user_id] = None
        /\ ActiveMatches(promocodes, loc[t].code) # {}

\* C25: extend_subscription(user_id, devices, d) that reads a users file
\* without a record of the user returns False at once, with no fetch from
\* and no update of the panel; with a record it goes into update_client with
\* replace_devices true and replace_duration false, and a successful update
\* stores the device limit devices; no step of it writes a store.
C25_ExtendNeedsUser ==
    [][\A t \in Tasks :
          (StepOf(t) /\ loc[t].op = "extend_subscription")
          => /\ pc[t] = "get_user:read"
                  => IF UserRecords(users, loc[t].user_id) = {}
                     THEN /\ pc'[t] = "done"
                          /\ loc'[t].ret = Some(FALSE)
                          /\ panel' = panel
                     ELSE /\ pc'[t] = "update_client:get_by_email"
                          /\ loc'[t].replace_devices
                          /\ ~loc'[t].replace_duration
                          /\ loc'[t].devices = loc[t].devices
                          /\ loc'[t].duration = loc[t].duration
             /\ (pc[t] = "update_client:update" /\ loc'[t].ret = Some(TRUE))
                  => panel'[loc[t].user_id][1].limit_ip = loc[t].devices
             /\ pc[t] \notin WriteAwaits
             /\ \A s \in StoreNames : stores'[s].file = stores[s].file]_vars

\* extend_subscription has returned False for a user without a record whose
\* client the panel holds, untouched
C25_Witness ==
    \E t \in Tasks :
        /\ Returned(t, "extend_subscription")
        /\ loc[t].ret = Some(FALSE)
        /\ loc[t].user = None
        /\ loc[t].success = None
        /\ UserRecords(users, loc[t].user_id) = {}
        /\ panel[loc[t].user_id] = Some(Client(2, Date2027))

C27_CreateOnlyWhenAbsent ==
    [][\A t \in Tasks :
          (StepOf(t) /\ pc[t] = "is_client_exists:get_by_email"
                     /\ pc'[t] = "create_client:add")
          => panel[loc[t].user_id] = None]_vars

\* C28: a request is answered at most once: of the respond flows that the
\* administrators run on one request, no two have their response message
\* delivered to the user.
C28_OneResponsePerRequest ==
    \A a \in Tasks, b \in Tasks :
        (/\ a # b
         /\ loc[a].op = "respond_to_request" /\ loc[b].op = "respond_to_request"
         /\ loc[a].request_id = loc[b].request_id)
        => ~(loc[a].sent = Some(TRUE) /\ loc[b].sent = Some(TRUE))

\* C29: when respond_to_request returns True, the request file holds the
\* request as completed; a call whose update_request_status failed does
\* not return True.
C29_TrueMeansCompleted ==
    [][\A t \in Tasks :
          (StepOf(t) /\ pc'[t] = "done" /\ loc'[t].op = "respond_to_request"
                     /\ loc'[t].ret = Some(TRUE))
          => StatusOf(requests', loc'[t].request_id) = {"completed"}]_vars

\* C30: apply_promocode whose get_promocode reads a ledger with no active
\* record of the code returns False in that step; it has not read or
\* written the users file, has not written the ledger and has made no
\* lookup, create or update call to the panel.
C30_UnknownCodeNoEffect ==
    /\ [][\A t \in Tasks :
             (StepOf(t) /\ pc[t] = "get_promocode:read"
                        /\ loc[t].op = "apply_promocode" /\ ~AccessRaises(t)
                        /\ \A i \in 1..Len(promocodes) :
                               promocodes[i].code = loc[t].code => ~promocodes[i].active)
             => /\ pc'[t] = "done"
                /\ loc'[t].ret = Some(FALSE)
                /\ users' = users /\ promocodes' = promocodes
                /\ panel' = panel /\ hist' = hist]_vars
    /\ [](\A t \in Tasks :
             (Returned(t, "apply_promocode") /\ loc[t].promocode = None)
             => /\ loc[t].ret = Some(FALSE)
                /\ loc[t].user = None /\ loc[t].data = << >>
                /\ loc[t].client = None /\ loc[t].success = None)

\* apply_promocode has returned False for a code the ledger does not hold,
\* for a user without a record and without a client
C30_Witness ==
    \E t \in Tasks :
        /\ Returned(t, "apply_promocode")
        /\ loc[t].ret = Some(FALSE)
        /\ loc[t].promocode = None
        /\ stores[PROMOCODES_FILE].content = "list"
        /\ CodeRecords(promocodes, loc[t].code) = {}
        /\ UserRecords(users, loc[t].user_id) = {}
        /\ panel[loc[t].user_id] = None

\* C31: the promo ledger, which starts without duplicates, holds no two
\* records of the same code in any state reached by interleaved
\* add_promocode, remove_promocode, use_promocode and deactivate_promocode
\* calls.
C31_NoDuplicateCodes ==
    \A i \in 1..Len(promocodes), j \in 1..Len(promocodes) :
        promocodes[i].code = promocodes[j].code => i = j

\* two add_promocode calls of one code, the only calls made, have raced and
\* both returned True; the ledger holds the code once
C31_Witness ==
    \E a \in Tasks, b \in Tasks :
        /\ a # b /\ calls = 2
        /\ Returned(a, "add_promocode") /\ Returned(b, "add_promocode")
        /\ loc[a].code = loc[b].code
        /\ loc[a].ret = Some(TRUE) /\ loc[b].ret = Some(TRUE)
        /\ Cardinality(CodeRecords(promocodes, loc[a].code)) = 1

\* the calls a task has running
Running(t, op) == pc[t] \notin {"idle", "done", "raised"} /\ loc[t].op = op

\* C32: no deadlock on the store locks: a lock that is held is held by a
\* task inside the file access of that store, so no task holds two locks
\* or holds one while it awaits the panel or Telegram; every task in a
\* lock's queue is at an await of that store; and with the event loop and
\* the external calls going on, every apply_promocode, create_request and
\* respond_to_request that was started returns.
C32_NoDeadlock ==
    /\ [](\A s \in StoreNames :
             /\ stores[s].locked => \E t \in Tasks : InFileAccess(t, s)
             /\ \A i \in 1..Len(stores[s].waiters) :
                    LET w == stores[s].waiters[i]
                    IN  pc[w] \in StoreAwaits /\ StoreOf(pc[w]) = s)
    /\ \A t \in Tasks :
           \A op \in {"apply_promocode", "create_request", "respond_to_request"} :
               Running(t, op) ~> Returned(t, op)

\* a respond_to_request call waits for the lock of the request store, which
\* a create_request call holds for its write
C32_Witness ==
    \E a \in Tasks, b \in Tasks :
        /\ Running(a, "create_request") /\ pc[a] = "create_request:write"
        /\ InFileAccess(a, REQUESTS_FILE)
        /\ Running(b, "respond_to_request")
        /\ Waits(stores[REQUESTS_FILE], b)
=============================================================================
